---- MODULE Spec2Model ----
(***************************************************************************)
(* Model of LearnHow2useEnv (learn_how2use_env.py): the callbacks of a     *)
(* direct-workflow RL environment (_setup_scene, _pre_physics_step,        *)
(* _apply_action, _get_observations, _get_rewards, _get_dones, _reset_idx, *)
(* _visualize_markers) driven by the host's reset()/step() cycle.          *)
(*                                                                         *)
(* Numbers.  Tensor entries are float32 in the code.  The model draws them *)
(* from a grid on which every operation the code performs is exact, and    *)
(* represents a number as a fraction <<n, d>> in lowest terms with d > 0;  *)
(* the IEEE specials are <<0,0>> (NaN), <<1,0>> (+inf) and <<-1,0>> (-inf).*)
(* A batched tensor is a function from environment ids to rows.            *)
(***************************************************************************)
EXTENDS Integers, Sequences, FiniteSets, TLC

VARIABLES
    commands,            \* self.commands            [env -> <<x, y, z>>]
    yaws,                \* self.yaws                [env -> angle]
    actions,             \* self.actions             (Unset before the first step)
    forwards,            \* self.forwards            [env -> <<x, y, z>>] or Unset
    dot,                 \* self.dot                 [env -> number] or Unset
    cross,               \* self.cross               [env -> number] or Unset
    forward_speed,       \* self.forward_speed       [env -> number] or Unset
    robot_data,          \* self.robot.data.*        [env -> [pos, quat, lin_vel_b]]
    default_root_state,  \* self.robot.data.default_root_state [env -> [pos, quat, lin_vel_b]]
    joint_vel_target,    \* the articulation's joint velocity target (Unset before the first step)
    episode_length_buf,  \* self.episode_length_buf  [env -> Nat]
    reset_buf,           \* the host's reset_buf: envs whose terminated or time_out flag is set
    markers,             \* arguments of visualization_markers.visualize made by the last callback, or NoCall
    ret,                 \* what the last callback returned (NoRet when it returns nothing)
    last,                \* the callback that ran last, with the env_ids it was given
    obs_at,              \* history: robot data and commands read by the last _get_observations
    substep,             \* the host's position in its decimation loop
    pc                   \* the host's position in reset()/step()

vars == <<commands, yaws, actions, forwards, dot, cross, forward_speed, robot_data,
          default_root_state, joint_vel_target, episode_length_buf, reset_buf,
          markers, ret, last, obs_at, substep, pc>>

----------------------------------------------------------------------------
(* Bounds of the model *)

NumEnvs == 2
MaxEpisodeLength == 3
Decimation == 2

(* 1E-8 is 1 / EpsInv *)
EpsInv == 100000000

Envs == 1..NumEnvs

Unset  == <<"unset">>
NoCall == [loc |-> <<>>, rots |-> <<>>, indices |-> <<>>]
NoRet  == <<"noret">>

----------------------------------------------------------------------------
(* Exact arithmetic on fractions, with IEEE-754 special values *)

Abs(n) == IF n < 0 THEN -n ELSE n
Sgn(n) == IF n < 0 THEN -1 ELSE IF n > 0 THEN 1 ELSE 0

RECURSIVE GCD(_, _)
GCD(a, b) == IF b = 0 THEN a ELSE GCD(b, a % b)

NaN  == <<0, 0>>
Zero == <<0, 1>>
One  == <<1, 1>>
Half == <<1, 2>>
Int2R(n) == <<n, 1>>

Frac(n, d) ==
    IF d = 0 THEN <<Sgn(n), 0>>
    ELSE LET g == GCD(Abs(n), Abs(d))
         IN  <<Sgn(d) * (n \div g), Abs(d) \div g>>

IsNaN(a)    == a = NaN
IsFinite(a) == a[2] # 0

RNeg(a) == <<-a[1], a[2]>>
RAbs(a) == <<Abs(a[1]), a[2]>>
RMul(a, b) == Frac(a[1] * b[1], a[2] * b[2])
RInv(a) == Frac(a[2], a[1])
RDiv(a, b) == RMul(a, RInv(b))
RAdd(a, b) ==
    IF IsFinite(a) /\ IsFinite(b) THEN Frac(a[1] * b[2] + b[1] * a[2], a[2] * b[2])
    ELSE IF IsNaN(a) \/ IsNaN(b) THEN NaN
    ELSE IF ~IsFinite(a) /\ ~IsFinite(b) /\ a # b THEN NaN
    ELSE IF IsFinite(a) THEN b ELSE a
RSub(a, b) == RAdd(a, RNeg(b))
(* comparisons are false on NaN, as in IEEE-754 *)
RLt(a, b) == ~IsNaN(a) /\ ~IsNaN(b) /\ a # b /\ a[1] * b[2] < b[1] * a[2]
RGt(a, b) == RLt(b, a)
RLe(a, b) == ~IsNaN(a) /\ ~IsNaN(b) /\ (a = b \/ RLt(a, b))

(* square root, exact on the squares the grid produces *)
ISqrt(n) == CHOOSE k \in 0..n : k * k = n
RSqrt(a) == IF IsNaN(a) THEN NaN ELSE <<ISqrt(a[1]), ISqrt(a[2])>>

----------------------------------------------------------------------------
(* Vectors: <<x, y, z>> of numbers *)

Vec(x, y, z)     == <<Int2R(x), Int2R(y), Int2R(z)>>
VAdd(u, v)       == <<RAdd(u[1], v[1]), RAdd(u[2], v[2]), RAdd(u[3], v[3])>>
VMul(u, v)       == <<RMul(u[1], v[1]), RMul(u[2], v[2]), RMul(u[3], v[3])>>
VScale(a, v)     == <<RMul(a, v[1]), RMul(a, v[2]), RMul(a, v[3])>>
VDivS(v, a)      == <<RDiv(v[1], a), RDiv(v[2], a), RDiv(v[3], a)>>
VSum(v)          == RAdd(RAdd(v[1], v[2]), v[3])
(* torch.cross(u, v, dim=-1) *)
VCross(u, v) ==
    <<RSub(RMul(u[2], v[3]), RMul(u[3], v[2])),
      RSub(RMul(u[3], v[1]), RMul(u[1], v[3])),
      RSub(RMul(u[1], v[2]), RMul(u[2], v[1]))>>
(* torch.linalg.norm(v, dim=1) *)
VNorm(v) == RSqrt(VSum(VMul(v, v)))

(* isaaclab.utils.math.quat_apply(quat, vec), quat = <<w, x, y, z>>:       *)
(*   t = 2 * cross(xyz, vec);  vec + w * t + cross(xyz, t)                 *)
quat_apply(q, v) ==
    LET xyz == <<q[2], q[3], q[4]>>
        t   == VScale(Int2R(2), VCross(xyz, v))
    IN  VAdd(VAdd(v, VScale(q[1], t)), VCross(xyz, t))

(* isaaclab.utils.math.quat_from_angle_axis(angle, axis): the rotation by  *)
(* angle about axis, kept in angle-axis form (its quaternion components    *)
(* are cos and sin of the half angle)                                      *)
quat_from_angle_axis(angle, axis) == [angle |-> angle, axis |-> axis]

----------------------------------------------------------------------------
(* Values the host supplies *)

(* torch.randn((n, 3)): rows of a standard normal sample.  The rows kept  *)
(* are the zero row, a row on the negative x axis, a row on the y axis and *)
(* a row off the axes; each has an exact horizontal norm.                  *)
Samples == { Vec(0, 0, 2), Vec(-3, 0, 2), Vec(0, -4, 2), Vec(-3, 4, 2) }
randn(ids) == [ids -> Samples]

IdentityQuat == <<One, Zero, Zero, Zero>>
(* robot.data.FORWARD_VEC_B *)
FORWARD_VEC_B == Vec(1, 0, 0)

(* robot.data.default_root_state: the configured initial root state *)
DefaultRootState == [pos |-> Vec(0, 0, 0), quat |-> IdentityQuat, lin_vel_b |-> Vec(0, 0, 0)]

(* scene.env_origins *)
env_origins(i) == Vec(2 * i, 0, 0)

(* root states the physics step can leave a robot in: driving straight,    *)
(* turned about the up axis, pitched about the lateral axis and reversing  *)
Poses ==
    << [pos |-> Vec(1, 0, 0),  quat |-> IdentityQuat,
        lin_vel_b |-> Vec(1, 0, 0)],
       [pos |-> Vec(2, 1, 0),  quat |-> <<Frac(3, 5), Zero, Zero, Frac(4, 5)>>,
        lin_vel_b |-> <<Half, Zero, Zero>>],
       [pos |-> Vec(0, -1, 1), quat |-> <<Frac(4, 5), Zero, Frac(3, 5), Zero>>,
        lin_vel_b |-> Vec(-1, 1, 0)] >>
PoseOf(m, i) == Poses[((m + i) % Len(Poses)) + 1]
PhysicsResults == {[i \in Envs |-> PoseOf(m, i)] : m \in 0..(Len(Poses) - 1)}

(* action tensors the policy can send *)
ActionTensors == {[i \in Envs |-> <<a, a>>] : a \in {1}}

(* env_ids arguments of _reset_idx *)
None == <<"None", {}>>
Ids(S) == <<"ids", S>>
AllIndices == Envs

----------------------------------------------------------------------------
(* _setup_scene / _reset_idx: commands and yaws *)

(* row[-1] = 0.0; row / norm(row) *)
NormalizeRow(row) ==
    LET flat == <<row[1], row[2], Zero>>
    IN  VDivS(flat, VNorm(flat))

(* float32 x + 1E-8: every float32 with |x| >= 1/4 is more than 2E-8 from  *)
(* its neighbours, so the sum rounds back to x                             *)
Eps == <<1, EpsInv>>
AddEps(x) == IF RLe(Frac(1, 4), RAbs(x)) THEN x ELSE RAdd(x, Eps)

B2I(b) == IF b THEN 1 ELSE 0

(* atan(ratio) + pi*plus - pi*minus, kept as the pair (ratio, plus-minus)  *)
YawOfRow(c) ==
    LET ratio == RDiv(c[2], AddEps(c[1]))
        gzero == [k \in 1..3 |-> RGt(c[k], Zero)]
        lzero == [k \in 1..3 |-> RLt(c[k], Zero)]
        plus  == B2I(lzero[1]) * B2I(gzero[2])
        minus == B2I(lzero[1]) * B2I(lzero[2])
    IN  [atan |-> ratio, turns |-> plus - minus]

(* as NewCommands, but the fresh rows are broadcast to every environment *)
NewCommandsEveryEnv(cmds, ids, raw) ==
    [i \in Envs |-> IF i \in ids THEN NormalizeRow(raw[i])
                    ELSE IF ids = {} THEN cmds[i]
                    ELSE NormalizeRow(raw[CHOOSE j \in ids : TRUE])]

(* commands[env_ids] = normalised fresh rows; other rows are kept *)
NewCommands(cmds, ids, raw) ==
    [i \in Envs |-> IF i \in ids THEN NormalizeRow(raw[i]) ELSE cmds[i]]

(* yaws[env_ids] = yaw of the new commands; other rows are kept *)
NewYaws(yws, ids, cmds) ==
    [i \in Envs |-> IF i \in ids THEN YawOfRow(cmds[i]) ELSE yws[i]]

----------------------------------------------------------------------------
(* _visualize_markers *)

up_dir == Vec(0, 0, 1)
marker_offset == <<Zero, Zero, Half>>

(* as VisualizeMarkers, but the markers are not raised above the robot *)
VisualizeMarkersNoOffset(rd, yws) ==
    LET loc1 == [i \in Envs |-> rd[i].pos]
        fwd  == [i \in Envs |-> rd[i].quat]
        cmd  == [i \in Envs |-> quat_from_angle_axis(yws[i], up_dir)]
    IN  [loc     |-> [k \in 1..(2 * NumEnvs) |->
                        IF k <= NumEnvs THEN loc1[k] ELSE loc1[k - NumEnvs]],
         rots    |-> [k \in 1..(2 * NumEnvs) |->
                        IF k <= NumEnvs THEN [quat |-> fwd[k]]
                        ELSE [quat |-> cmd[k - NumEnvs]]],
         indices |-> [k \in 1..(2 * NumEnvs) |-> IF k <= NumEnvs THEN 0 ELSE 1]]

VisualizeMarkers(rd, yws) ==
    LET loc1 == [i \in Envs |-> VAdd(rd[i].pos, marker_offset)]
        fwd  == [i \in Envs |-> rd[i].quat]
        cmd  == [i \in Envs |-> quat_from_angle_axis(yws[i], up_dir)]
    IN  [loc     |-> [k \in 1..(2 * NumEnvs) |->
                        IF k <= NumEnvs THEN loc1[k] ELSE loc1[k - NumEnvs]],
         rots    |-> [k \in 1..(2 * NumEnvs) |->
                        IF k <= NumEnvs THEN [quat |-> fwd[k]]
                        ELSE [quat |-> cmd[k - NumEnvs]]],
         indices |-> [k \in 1..(2 * NumEnvs) |-> IF k <= NumEnvs THEN 0 ELSE 1]]

----------------------------------------------------------------------------
(* _get_observations, _get_rewards, _get_dones *)

Forwards(rd) == [i \in Envs |-> quat_apply(rd[i].quat, FORWARD_VEC_B)]
(* as DotOf, but against the first environment's command *)
DotOfFirstCommand(fw, cmds) == [i \in Envs |-> VSum(VMul(fw[i], cmds[1]))]
DotOf(fw, cmds) == [i \in Envs |-> VSum(VMul(fw[i], cmds[i]))]
CrossOf(fw, cmds) == [i \in Envs |-> VCross(fw[i], cmds[i])[3]]
ForwardSpeedOf(rd) == [i \in Envs |-> rd[i].lin_vel_b[1]]
(* torch.hstack((dot, cross, forward_speed)) *)
ObsOf(d, c, fs) == [i \in Envs |-> <<d[i], c[i], fs[i]>>]

(* as RewardOf, but without the absolute value *)
RewardOfSigned(fs, d, c) == [i \in Envs |-> RSub(RMul(fs[i], d[i]), c[i])]
RewardOf(fs, d, c) == [i \in Envs |-> RSub(RMul(fs[i], d[i]), RAbs(c[i]))]

(* as TimeOutOf, but against max_episode_length itself *)
TimeOutOfAtLength(buf) == [i \in Envs |-> buf[i] >= MaxEpisodeLength]
TimeOutOf(buf) == [i \in Envs |-> buf[i] >= MaxEpisodeLength - 1]
(* as TerminatedOf, but an episode past its first step terminates *)
TerminatedOfEarly(buf) == \E i \in Envs : buf[i] > 1
TerminatedOf(buf) == FALSE

----------------------------------------------------------------------------
(* _reset_idx: root state *)

(* as DefaultAfterReset, but the += reaches the stored default (a view) *)
DefaultAfterResetInPlace(dflt, ids) ==
    [i \in Envs |-> IF i \in ids
                    THEN [dflt[i] EXCEPT !.pos = VAdd(dflt[i].pos, env_origins(i))]
                    ELSE dflt[i]]

(* default_root_state[env_ids] indexes with an index tensor, which copies: *)
(* the in-place += changes the copy and the stored default is kept         *)
DefaultAfterReset(dflt, ids) == dflt

RootStateToWrite(dflt, ids) ==
    [i \in ids |-> [dflt[i] EXCEPT !.pos = VAdd(dflt[i].pos, env_origins(i))]]

(* robot.write_root_state_to_sim(root_state, env_ids): the rows of env_ids *)
(* take the written state, which robot.data then reports                   *)
WriteRootState(rd, root, ids) ==
    [i \in Envs |-> IF i \in ids THEN root[i] ELSE rd[i]]

----------------------------------------------------------------------------
(* The state after construction: DirectRLEnv.__init__ has run _setup_scene *)

SetupCommands(raw) == NewCommands([i \in Envs |-> Vec(0, 0, 0)], Envs, raw)

Init ==
    /\ \E raw \in randn(Envs) : commands = SetupCommands(raw)
    /\ yaws = NewYaws([i \in Envs |-> Zero], Envs, commands)
    /\ actions = Unset
    /\ forwards = Unset
    /\ dot = Unset
    /\ cross = Unset
    /\ forward_speed = Unset
    /\ robot_data = [i \in Envs |-> DefaultRootState]
    /\ default_root_state = [i \in Envs |-> DefaultRootState]
    /\ joint_vel_target = Unset
    /\ episode_length_buf = [i \in Envs |-> 0]
    /\ reset_buf = {}
    /\ markers = NoCall
    /\ ret = NoRet
    /\ last = <<"_setup_scene", None>>
    /\ obs_at = Unset
    /\ substep = 0
    /\ pc = "reset"

----------------------------------------------------------------------------
(* The callbacks *)

(* _reset_idx(env_ids), lines 136-160 *)
ResetIdx(env_ids) ==
    LET ids == IF env_ids = None THEN AllIndices ELSE env_ids[2]
    IN  /\ episode_length_buf' =
              [i \in Envs |-> IF i \in ids THEN 0 ELSE episode_length_buf[i]]
        /\ \E raw \in randn(ids) : commands' = NewCommands(commands, ids, raw)
        /\ yaws' = NewYaws(yaws, ids, commands')
        /\ default_root_state' = DefaultAfterReset(default_root_state, ids)
        /\ robot_data' = WriteRootState(robot_data, RootStateToWrite(default_root_state, ids), ids)
        /\ markers' = VisualizeMarkers(robot_data', yaws')
        /\ ret' = NoRet
        /\ last' = <<"_reset_idx", env_ids>>
        /\ UNCHANGED <<actions, forwards, dot, cross, forward_speed,
                       joint_vel_target, reset_buf, obs_at, substep>>

(* _pre_physics_step(actions), lines 92-94 *)
PrePhysicsStep ==
    /\ pc = "pre"
    /\ \E a \in ActionTensors : actions' = a
    /\ markers' = VisualizeMarkers(robot_data, yaws)
    /\ ret' = NoRet
    /\ last' = <<"_pre_physics_step", None>>
    /\ substep' = 0
    /\ pc' = "apply"
    /\ UNCHANGED <<commands, yaws, forwards, dot, cross, forward_speed, robot_data,
                   default_root_state, joint_vel_target, episode_length_buf,
                   reset_buf, obs_at>>

(* _apply_action(), lines 97-98 *)
ApplyAction ==
    /\ pc = "apply"
    /\ joint_vel_target' = actions
    /\ markers' = NoCall
    /\ ret' = NoRet
    /\ last' = <<"_apply_action", None>>
    /\ pc' = "physics"
    /\ UNCHANGED <<commands, yaws, actions, forwards, dot, cross, forward_speed,
                   robot_data, default_root_state, episode_length_buf, reset_buf,
                   obs_at, substep>>

(* _get_observations(), lines 100-121 *)
GetObservations ==
    /\ pc \in {"obs0", "obs"}
    /\ forwards' = Forwards(robot_data)
    /\ dot' = DotOf(forwards', commands)
    /\ cross' = CrossOf(forwards', commands)
    /\ forward_speed' = ForwardSpeedOf(robot_data)
    /\ ret' = [policy |-> ObsOf(dot', cross', forward_speed')]
    /\ obs_at' = [robot_data |-> robot_data, commands |-> commands]
    /\ markers' = NoCall
    /\ last' = <<"_get_observations", None>>
    /\ pc' = IF pc = "obs0" THEN "randomize" ELSE "pre"
    /\ UNCHANGED <<commands, yaws, actions, robot_data, default_root_state,
                   joint_vel_target, episode_length_buf, reset_buf, substep>>

(* _get_rewards(), lines 123-130 *)
GetRewards ==
    /\ pc = "rewards"
    /\ ret' = RewardOf(forward_speed, dot, cross)
    /\ markers' = NoCall
    /\ last' = <<"_get_rewards", None>>
    /\ pc' = IF reset_buf # {} THEN "reset_idx" ELSE "obs"
    /\ UNCHANGED <<commands, yaws, actions, forwards, dot, cross, forward_speed,
                   robot_data, default_root_state, joint_vel_target,
                   episode_length_buf, reset_buf, obs_at, substep>>

(* _get_dones(), lines 132-134; the host ors the two flags into reset_buf *)
GetDones ==
    /\ pc = "dones"
    /\ ret' = [terminated |-> TerminatedOf(episode_length_buf),
               time_out   |-> TimeOutOf(episode_length_buf)]
    /\ reset_buf' = {i \in Envs : ret'.terminated \/ ret'.time_out[i]}
    /\ markers' = NoCall
    /\ last' = <<"_get_dones", None>>
    /\ pc' = "rewards"
    /\ UNCHANGED <<commands, yaws, actions, forwards, dot, cross, forward_speed,
                   robot_data, default_root_state, joint_vel_target,
                   episode_length_buf, obs_at, substep>>

----------------------------------------------------------------------------
(* The host: DirectRLEnv.reset(), the runner's start, DirectRLEnv.step()   *)

(* reset(): _reset_idx on every environment, then _get_observations *)
HostReset ==
    /\ pc = "reset"
    /\ \E env_ids \in {None, Ids(AllIndices)} : ResetIdx(env_ids)
    /\ pc' = "obs0"

(* the runner may start the environments at different episode steps *)
RandomizeEpisodeLength ==
    /\ pc = "randomize"
    /\ episode_length_buf' \in [Envs -> 0..(MaxEpisodeLength - 1)]
    /\ pc' = "pre"
    /\ UNCHANGED <<commands, yaws, actions, forwards, dot, cross, forward_speed,
                   robot_data, default_root_state, joint_vel_target, reset_buf,
                   markers, ret, last, obs_at, substep>>

(* one simulation step; after the last of the decimation loop the step     *)
(* counters advance                                                        *)
Physics ==
    /\ pc = "physics"
    /\ \A i \in Envs : episode_length_buf[i] <= MaxEpisodeLength
    /\ robot_data' \in PhysicsResults
    /\ substep' = substep + 1
    /\ IF substep' < Decimation
       THEN /\ pc' = "apply"
            /\ UNCHANGED episode_length_buf
       ELSE /\ pc' = "dones"
            /\ episode_length_buf' = [i \in Envs |-> episode_length_buf[i] + 1]
    /\ UNCHANGED <<commands, yaws, actions, forwards, dot, cross, forward_speed,
                   default_root_state, joint_vel_target, reset_buf, markers, ret,
                   last, obs_at>>

(* step(): _reset_idx on the environments whose episode is over *)
StepReset ==
    /\ pc = "reset_idx"
    /\ ResetIdx(Ids(reset_buf))
    /\ pc' = "obs"

Next ==
    \/ HostReset
    \/ RandomizeEpisodeLength
    \/ PrePhysicsStep
    \/ ApplyAction
    \/ Physics
    \/ GetDones
    \/ GetRewards
    \/ StepReset
    \/ GetObservations

Spec == Init /\ [][Next]_vars

----------------------------------------------------------------------------
(* Properties *)

Ran(name) == last[1] = name
(* the environments the last _reset_idx call covered *)
LastIds == IF last[2] = None THEN Envs ELSE last[2][2]

(* the direction <<cos a, sin a>> of the angle a = atan(ratio) + turns*pi. *)
(* float32 atan of a ratio of magnitude 1E8 or more is float32 pi/2.       *)
AtanDir(r) ==
    IF IsNaN(r) THEN <<NaN, NaN>>
    ELSE IF ~IsFinite(r) \/ Abs(r[1]) >= EpsInv THEN <<Zero, Int2R(Sgn(r[1]))>>
    ELSE LET h == RSqrt(RAdd(One, RMul(r, r)))
         IN  <<RInv(h), RDiv(r, h)>>
YawDir(yaw) ==
    IF yaw.turns = 0 THEN AtanDir(yaw.atan)
    ELSE <<RNeg(AtanDir(yaw.atan)[1]), RNeg(AtanDir(yaw.atan)[2])>>
YawInRange(yaw) ==
    /\ yaw.turns = 1  => RLe(yaw.atan, Zero)
    /\ yaw.turns = -1 => RLe(Zero, yaw.atan)
RowIsNaN(c) == \E k \in 1..3 : IsNaN(c[k])

(* C1, as claimed: after _get_dones, time_out of an environment is true    *)
(* exactly when its step counter has reached max_episode_length.           *)
C1_TimeOutAtMaxEpisodeLength ==
    Ran("_get_dones") =>
        \A i \in Envs : ret.time_out[i] <=> episode_length_buf[i] >= MaxEpisodeLength

(* C1, amended: after _get_dones, time_out of an environment is true       *)
(* exactly when its step counter has reached max_episode_length - 1, and   *)
(* false for every smaller count.                                          *)
C1_TimeOutOneStepBeforeMaxEpisodeLength ==
    Ran("_get_dones") =>
        \A i \in Envs :
            /\ episode_length_buf[i] + 1 >= MaxEpisodeLength => ret.time_out[i] = TRUE
            /\ episode_length_buf[i] + 1 < MaxEpisodeLength => ret.time_out[i] = FALSE

C1_Witness ==
    /\ Ran("_get_dones")
    /\ \E i, j \in Envs :
          /\ episode_length_buf[i] = MaxEpisodeLength - 1 /\ ret.time_out[i]
          /\ episode_length_buf[j] < MaxEpisodeLength - 1 /\ ~ret.time_out[j]

(* C2: the terminated value _get_dones returns is false in every state, so *)
(* the environments the host resets are exactly those that timed out.      *)
C2_NeverTerminated ==
    Ran("_get_dones") =>
        /\ ret.terminated = FALSE
        /\ reset_buf = {i \in Envs : episode_length_buf[i] + 1 >= MaxEpisodeLength}

C2_Witness ==
    /\ Ran("_get_dones")
    /\ reset_buf # {} /\ reset_buf # Envs
    /\ \E i \in Envs \ reset_buf :
          /\ episode_length_buf[i] >= 1
          /\ robot_data[i].pos[3] # Zero

(* C3: the command of every environment has z = 0 and norm 1.              *)
C3_CommandsAreUnitHorizontal ==
    \A i \in Envs :
        /\ commands[i][3] = Zero
        /\ VSum(VMul(commands[i], commands[i])) = One

(* C4: the yaw of every environment with a command direction lies in       *)
(* [-pi, pi] and points the way the command points.                        *)
C4_YawIsHeadingOfCommand ==
    \A i \in Envs :
        ~RowIsNaN(commands[i]) =>
            /\ YawInRange(yaws[i])
            /\ YawDir(yaws[i]) = <<commands[i][1], commands[i][2]>>

(* C5: _get_observations returns for every environment the triple          *)
(* <<forward . command, (forward x command).z, body-frame x velocity>>,    *)
(* with that environment's own command.                                    *)
C5_ObservationTriple ==
    Ran("_get_observations") =>
        \A i \in Envs :
            LET f == quat_apply(robot_data[i].quat, FORWARD_VEC_B)
                c == commands[i]
            IN  /\ Len(ret.policy[i]) = 3
                /\ ret.policy[i][1] =
                       RAdd(RAdd(RMul(f[1], c[1]), RMul(f[2], c[2])), RMul(f[3], c[3]))
                /\ ret.policy[i][2] = RSub(RMul(f[1], c[2]), RMul(f[2], c[1]))
                /\ ret.policy[i][3] = robot_data[i].lin_vel_b[1]

C5_Witness ==
    /\ Ran("_get_observations")
    /\ \E i, j \in Envs :
          /\ commands[i] # commands[j]
          /\ ~RowIsNaN(commands[i]) /\ ~RowIsNaN(commands[j])
          /\ ret.policy[j][1] # VSum(VMul(forwards[j], commands[i]))
          /\ \A k \in 1..3 : ret.policy[j][k] # Zero

(* C6: _get_rewards returns forward_speed * dot - |cross| of the values    *)
(* the last _get_observations stored, which are those of the robot state   *)
(* and commands it read, whatever the robot state and commands are now.    *)
C6_RewardOfLastObservation ==
    Ran("_get_rewards") =>
        \A i \in Envs :
            LET f  == quat_apply(obs_at.robot_data[i].quat, FORWARD_VEC_B)
                c  == obs_at.commands[i]
                d  == RAdd(RAdd(RMul(f[1], c[1]), RMul(f[2], c[2])), RMul(f[3], c[3]))
                x  == RSub(RMul(f[1], c[2]), RMul(f[2], c[1]))
                fs == obs_at.robot_data[i].lin_vel_b[1]
            IN  /\ dot[i] = d /\ cross[i] = x /\ forward_speed[i] = fs
                /\ ret[i] = RSub(RMul(fs, d), IF RLt(x, Zero) THEN RNeg(x) ELSE x)

C6_Witness ==
    /\ Ran("_get_rewards")
    /\ \E i \in Envs :
          /\ obs_at.robot_data[i] # robot_data[i]
          /\ RLt(cross[i], Zero)
          /\ ret[i] # RewardOf(ForwardSpeedOf(robot_data),
                               DotOf(Forwards(robot_data), commands),
                               CrossOf(Forwards(robot_data), commands))[i]
    /\ \E j \in Envs : RLt(Zero, RMul(forward_speed[j], dot[j]))

(* C7: _pre_physics_step and _reset_idx each end with one redraw of        *)
(* 2*num_envs markers: entry i is the forward marker (index 0) with the    *)
(* robot's root orientation, entry num_envs+i the command marker (index 1) *)
(* turned about the up axis by the current yaw, both 0.5 above the root.   *)
C7_MarkersRedrawn ==
    (Ran("_pre_physics_step") \/ Ran("_reset_idx")) =>
        /\ markers # NoCall
        /\ DOMAIN markers.loc = 1..(2 * NumEnvs)
        /\ DOMAIN markers.rots = 1..(2 * NumEnvs)
        /\ DOMAIN markers.indices = 1..(2 * NumEnvs)
        /\ \A i \in Envs :
              LET above == <<robot_data[i].pos[1], robot_data[i].pos[2],
                             RAdd(robot_data[i].pos[3], Frac(1, 2))>>
              IN  /\ markers.indices[i] = 0
                  /\ markers.indices[NumEnvs + i] = 1
                  /\ markers.rots[i].quat = robot_data[i].quat
                  /\ markers.rots[NumEnvs + i].quat =
                         [angle |-> yaws[i], axis |-> <<Zero, Zero, One>>]
                  /\ markers.loc[i] = above
                  /\ markers.loc[NumEnvs + i] = above

C7_Witness ==
    /\ Ran("_reset_idx")
    /\ actions # Unset
    /\ LastIds # Envs
    /\ \E i \in LastIds, j \in Envs \ LastIds :
          /\ markers.rots[NumEnvs + i].quat.angle.turns = 1
          /\ markers.rots[NumEnvs + j].quat.angle.turns = 0
          /\ markers.loc[i] # markers.loc[j]

(* C8: the divisor x + 1E-8 of the yaw derivation is non-zero for every    *)
(* command and the yaw is a finite angle.                                  *)
C8_YawAlwaysDefined ==
    \A i \in Envs :
        /\ AddEps(commands[i][1]) # Zero
        /\ IsFinite(yaws[i].atan)

(* what a _reset_idx step may change *)
ResetStepFrame ==
    pc \in {"reset", "reset_idx"} =>
        LET ids == IF last'[2] = None THEN Envs ELSE last'[2][2]
        IN  /\ \A i \in Envs \ ids : commands'[i] = commands[i] /\ yaws'[i] = yaws[i]
            /\ \A i \in ids : yaws'[i] = YawOfRow(commands'[i])
            /\ last'[2] = None =>
                  \A i \in Envs :
                      /\ episode_length_buf'[i] = 0
                      /\ robot_data'[i].pos = env_origins(i)

(* C9: a _reset_idx step leaves the command and the yaw of every           *)
(* environment outside env_ids unchanged, and with env_ids = None it       *)
(* resets every environment.                                               *)
C9_ResetTouchesOnlyEnvIds == [][ResetStepFrame]_vars

C9_Witness ==
    /\ Ran("_reset_idx")
    /\ last[2] # None
    /\ LastIds # {} /\ LastIds # Envs
    /\ \E i \in LastIds, j \in Envs \ LastIds :
          /\ commands[i] # commands[j]
          /\ episode_length_buf[j] > 0

(* C10: every _reset_idx writes, for each environment of env_ids, the      *)
(* default root state moved by that environment's origin, and the stored   *)
(* default root state never changes, so the offset does not accumulate.    *)
C10_RootStateOffsetOnce ==
    /\ \A i \in Envs : default_root_state[i] = DefaultRootState
    /\ Ran("_reset_idx") =>
          \A i \in LastIds :
              /\ robot_data[i].pos = VAdd(DefaultRootState.pos, env_origins(i))
              /\ robot_data[i].quat = DefaultRootState.quat
              /\ robot_data[i].lin_vel_b = DefaultRootState.lin_vel_b

C10_Witness ==
    /\ Ran("_reset_idx")
    /\ actions # Unset
    /\ LastIds # {}
    /\ \E i \in LastIds : robot_data[i].pos = env_origins(i)

====
